---- MODULE Spec2Model ----
(***************************************************************************)
(* Model of msticpy/datamodel/pivot.py: the Pivot environment.  Provider   *)
(* discovery (namespace scan + explicit providers), the one-shot calls to  *)
(* the three registration helpers, and the shared query time span.         *)
(*                                                                         *)
(* Time is counted in minutes on an integer clock (now).  A Python dict is *)
(* a sequence of [k, v] entries with unique keys, in insertion order.      *)
(* An optional value is a sequence of length 0 (None) or 1.                *)
(***************************************************************************)
EXTENDS Integers, Sequences, FiniteSets, TLC

VARIABLES
    namespace,      \* constructor argument: values of the namespace mapping, in insertion order
    providers,      \* constructor argument: the explicit providers iterable
    timespan_arg,   \* constructor argument: optional TimeSpan
    now,            \* datetime.utcnow(), in minutes
    status,         \* "new" | "constructed" | "raised" (constructor raised)
    _providers,     \* self._providers
    _query_time,    \* self._query_time: optional QueryTime
    calls,          \* calls made to the registration helpers by __init__, in order
    exc,            \* optional error surfaced to the caller of __init__
    helper_exc,     \* optional error raised inside a helper during __init__
    failed_at,      \* position in the helper calls of the one that raised (0: none)
    constructed_at, \* value of now when __init__ ran
    last_op,        \* the last operation that wrote the time span, with its arguments
    mods,           \* number of writes made through the mapping returned by providers
    static_call     \* outcome of the last register_pivot_providers call

vars == <<namespace, providers, timespan_arg, now, status, _providers, _query_time,
          calls, exc, helper_exc, failed_at, constructed_at, last_op,
          mods, static_call>>

-----------------------------------------------------------------------------
(* Bounds of the model *)

MaxObjs == 3
MaxNow == 2
MaxMods == 1

-----------------------------------------------------------------------------
(* Objects found in a namespace or in an explicit providers argument *)

QP(env, n) == [cls |-> "QueryProvider", environment |-> env, id |-> n]
TI(n) == [cls |-> "TILookup", environment |-> "-", id |-> n]
NoneObj == [cls |-> "NoneType", environment |-> "-", id |-> 0]
OtherObj == [cls |-> "object", environment |-> "-", id |-> 1]

\* TILookup(): a newly constructed default instance (id 0 is never an input)
NewTILookup == TI(0)

Objects == {QP("A", 1), QP("A", 2), QP("TILookup", 1), QP("TILookup", 2),
            TI(1), TI(2), OtherObj}

isinstance(obj, cls) == obj.cls = cls

\* Python truth value of an object: None is false, instances are true
Truthy(obj) == obj # NoneObj

-----------------------------------------------------------------------------
(* Iterables: a list can be traversed repeatedly, an iterator only once *)

Iterable(kind, items) == [kind |-> kind, items |-> items]
NoProviders == Iterable("none", <<>>)

\* bool(providers): None and the empty list are false, an iterator is always true
IterTruthy(it) ==
    CASE it.kind = "none" -> FALSE
      [] it.kind = "list" -> Len(it.items) > 0
      [] OTHER -> TRUE

\* the items a full traversal yields
Traverse(it) == it.items

\* the iterable after a full traversal: an iterator is exhausted
AfterTraverse(it) ==
    IF it.kind = "iter" THEN [it EXCEPT !.items = <<>>] ELSE it

-----------------------------------------------------------------------------
(* dict *)

EmptyDict == <<>>

DictHas(d, k) == \E i \in 1..Len(d) : d[i].k = k

\* d.get(k)
DictGet(d, k) ==
    IF DictHas(d, k)
    THEN d[CHOOSE i \in 1..Len(d) : d[i].k = k].v
    ELSE NoneObj

\* d[k] = v : replaces in place, or appends
DictSet(d, k, v) ==
    IF DictHas(d, k)
    THEN [i \in 1..Len(d) |-> IF d[i].k = k THEN [k |-> k, v |-> v] ELSE d[i]]
    ELSE Append(d, [k |-> k, v |-> v])

\* del d[k]
DictDel(d, k) == SelectSeq(d, LAMBDA e : e.k # k)

\* d.values()
DictValues(d) == [i \in 1..Len(d) |-> d[i].v]

DictKeys(d) == {d[i].k : i \in 1..Len(d)}

RECURSIVE DictUpdate(_, _)
\* d.update(other)
DictUpdate(d, other) ==
    IF other = <<>> THEN d
    ELSE DictUpdate(DictSet(d, Head(other).k, Head(other).v), Tail(other))

RECURSIVE EnvDict(_)
\* {prov.environment: prov for prov in seq if isinstance(prov, QueryProvider)}
EnvDict(seq) ==
    IF seq = <<>> THEN EmptyDict
    ELSE LET last == seq[Len(seq)]
             rest == EnvDict(SubSeq(seq, 1, Len(seq) - 1))
         IN IF isinstance(last, "QueryProvider")
            THEN DictSet(rest, last.environment, last)
            ELSE rest

-----------------------------------------------------------------------------
(* Provider discovery *)

\* Pivot._get_query_providers: the registry after the call
_get_query_providers(reg, ns, provs) ==
    LET r1 == IF Len(ns) > 0 THEN DictUpdate(reg, EnvDict(ns)) ELSE reg
    IN IF IterTruthy(provs) THEN DictUpdate(r1, EnvDict(Traverse(provs))) ELSE r1

\* the providers iterable as _get_query_providers leaves it
ProvidersAfterQuery(provs) ==
    IF IterTruthy(provs) THEN AfterTraverse(provs) ELSE provs

OfType(seq, cls) == SelectSeq(seq, LAMBDA p : isinstance(p, cls))

\* faulty variant: the first provider of the namespace instead of the last
_get_provider_by_type_first(cls, ns, provs) ==
    LET ti_provs == IF IterTruthy(provs) THEN OfType(Traverse(provs), cls) ELSE <<>>
        ns_providers == IF Len(ns) > 0 THEN OfType(ns, cls) ELSE <<>>
    IN IF Len(ti_provs) > 0 THEN ti_provs[1]
       ELSE IF Len(ns_providers) > 0 THEN ns_providers[1]
       ELSE NoneObj

\* Pivot._get_provider_by_type
_get_provider_by_type(cls, ns, provs) ==
    LET ti_provs == IF IterTruthy(provs) THEN OfType(Traverse(provs), cls) ELSE <<>>
        ns_providers == IF Len(ns) > 0 THEN OfType(ns, cls) ELSE <<>>
    IN IF Len(ti_provs) > 0 THEN ti_provs[1]
       ELSE IF Len(ns_providers) > 0 THEN ns_providers[Len(ns_providers)]
       ELSE NoneObj

\* x or TILookup()
OrNewTILookup(x) == IF Truthy(x) THEN x ELSE NewTILookup

\* Pivot._get_all_providers
_get_all_providers(reg, ns, provs) ==
    LET r1 == _get_query_providers(reg, ns, provs)
        p1 == ProvidersAfterQuery(provs)
    IN DictSet(r1, "TILookup", OrNewTILookup(_get_provider_by_type("TILookup", ns, p1)))

\* Pivot.get_provider
get_provider(reg, name) == DictGet(reg, name)

-----------------------------------------------------------------------------
(* TimeSpan and the QueryTime widget *)

TimeSpan(s, e) == [start |-> s, end |-> e]

SampleSpans == {TimeSpan(10, 20), TimeSpan(30, 50)}

Units == {"min", "hour", "day"}

UnitMinutes(u) ==
    CASE u = "min" -> 1
      [] u = "hour" -> 60
      [] u = "day" -> 1440

\* the units of a QueryTime that is given none
QueryTimeDefUnits == "min"

\* QueryTime(origin_time=..., before=..., after=..., units=...)
QueryTimeFromOrigin(origin, before, after, units) ==
    [start |-> origin - before * UnitMinutes(units),
     end |-> origin + after * UnitMinutes(units),
     units |-> units, mode |-> "default", displayed |-> FALSE]

\* QueryTime(timespan=...)
QueryTimeFromSpan(ts) ==
    [start |-> ts.start, end |-> ts.end,
     units |-> QueryTimeDefUnits, mode |-> "explicit", displayed |-> FALSE]

\* QueryTime.display()
display(qt) == [qt EXCEPT !.displayed = TRUE]

DefBefore == 1
DefAfter == 0

\* faulty variant: the window is centred on the origin: after = before
_set_default_query_time_centred(units, before, t) ==
    QueryTimeFromOrigin(t, before, before, units)

\* Pivot._set_default_query_time, called at time t
_set_default_query_time(units, before, t) ==
    QueryTimeFromOrigin(t, before, DefAfter, units)

\* Pivot.timespan (setter)
timespan_setter(ts) == QueryTimeFromSpan(ts)

\* Pivot.start
start(qt) == qt.start

\* Pivot.end
end(qt) == qt.end

\* Pivot.timespan (getter)
timespan(qt) == TimeSpan(start(qt), end(qt))

\* Pivot._get_timespan
_get_timespan(qt) == TimeSpan(start(qt), end(qt))

\* Pivot.__init__, lines 53-57: the query time after the first statements
InitQueryTime(ts_opt, t) ==
    IF ts_opt # <<>> THEN timespan_setter(ts_opt[1])
    ELSE _set_default_query_time("day", DefBefore, t)

\* Pivot.edit_query_time, called at time t on query time qt (after __init__
\* self._query_time is never None, so line 171 reduces to the units test)
edit_query_time(qt, units, ts_opt, t) ==
    LET q1 == IF qt.units # units THEN _set_default_query_time(units, DefBefore, t) ELSE qt
        q2 == IF ts_opt # <<>> THEN QueryTimeFromSpan(ts_opt[1]) ELSE q1
    IN display(q2)

-----------------------------------------------------------------------------
(* Calls to the registration helpers *)

NoAccessor == [kind |-> "none", val |-> <<>>]

\* faulty variant: the accessor's value at registration time: self._get_timespan()
TimespanAccessor_snapshot(qt) == [kind |-> "value", val |-> <<TimeSpan(qt.start, qt.end)>>]

\* the accessor __init__ hands to add_data_queries_to_entities: the bound method
\* self._get_timespan, not its value
TimespanAccessor(qt) == [kind |-> "bound_method", val |-> <<>>]

\* calling a registered accessor while the environment holds query time qt
CallAccessor(acc, qt) ==
    IF acc.kind = "bound_method" THEN _get_timespan(qt) ELSE acc.val[1]

DataCall(prov, qt) ==
    [fn |-> "add_data_queries_to_entities", prov |-> prov,
     get_timespan |-> TimespanAccessor(qt), container |-> "-"]

IocCall(prov) ==
    [fn |-> "add_ioc_queries_to_entities", prov |-> prov,
     get_timespan |-> NoAccessor, container |-> "ti"]

RegisterCall(container) ==
    [fn |-> "register_pivots", prov |-> NoneObj,
     get_timespan |-> NoAccessor, container |-> container]

\* faulty variant: data_provs without the isinstance filter
data_provs_unfiltered(reg) == DictValues(reg)

\* data_provs: the registry values that are query providers
data_provs(reg) == OfType(DictValues(reg), "QueryProvider")

\* the helper calls of __init__, in program order, when none of them raises
PlannedCalls(reg, qt) ==
    [i \in 1..Len(data_provs(reg)) |-> DataCall(data_provs(reg)[i], qt)]
        \o <<IocCall(get_provider(reg, "TILookup"))>>
        \o <<RegisterCall("other")>>

Errors == {"ValueError", "KeyError"}

\* faulty variant: the error is recorded and the remaining calls are still made
RunHelpers_continue(planned, f, e) ==
    IF f = 0 THEN [calls |-> planned, exc |-> <<>>]
    ELSE [calls |-> planned, exc |-> <<e>>]

\* running the calls in order when call number f raises e (f = 0: none raises):
\* nothing catches the error, so control leaves at the failing call
RunHelpers(planned, f, e) ==
    IF f = 0 THEN [calls |-> planned, exc |-> <<>>]
    ELSE [calls |-> SubSeq(planned, 1, f), exc |-> <<e>>]

-----------------------------------------------------------------------------
(* Initial states *)

Seqs(S, n) == UNION {[1..k -> S] : k \in 0..n}

Op(name, ts_opt, units) == [op |-> name, ts |-> ts_opt, units |-> units]

InitRest ==
    /\ now = 0
    /\ status = "new"
    /\ _providers = EmptyDict
    /\ _query_time = <<>>
    /\ calls = <<>>
    /\ exc = <<>>
    /\ helper_exc = <<>>
    /\ failed_at = 0
    /\ constructed_at = 0
    /\ last_op = Op("none", <<>>, "-")
    /\ mods = 0
    /\ static_call = [calls |-> <<>>, exc |-> <<>>, helper_exc |-> <<>>]

\* every namespace and providers argument holding at most MaxObjs objects together
Init ==
    /\ namespace \in Seqs(Objects, MaxObjs)
    /\ \E items \in Seqs(Objects, MaxObjs - Len(namespace)) :
          providers \in {Iterable("list", items), Iterable("iter", items)}
                            \cup (IF items = <<>> THEN {NoProviders} ELSE {})
    /\ timespan_arg \in {<<>>, <<TimeSpan(10, 20)>>}
    /\ InitRest

LifeNamespaces == {<<>>, <<QP("A", 1), OtherObj, TI(1)>>}
LifeProviders == {NoProviders, Iterable("list", <<QP("A", 2)>>)}

InitLife ==
    /\ namespace \in LifeNamespaces
    /\ providers \in LifeProviders
    /\ timespan_arg \in {<<>>} \cup {<<ts>> : ts \in SampleSpans}
    /\ InitRest

-----------------------------------------------------------------------------
(* Operations *)

\* Pivot.__init__
Construct ==
    /\ status = "new"
    /\ LET qt == InitQueryTime(timespan_arg, now)
           reg == _get_all_providers(EmptyDict, namespace, providers)
           planned == PlannedCalls(reg, qt)
       IN \E f \in 0..Len(planned), e \in Errors :
            LET run == RunHelpers(planned, f, e)
            IN /\ f = 0 => e = "ValueError"
               /\ _query_time' = <<qt>>
               /\ _providers' = reg
               /\ calls' = run.calls
               /\ exc' = run.exc
               /\ helper_exc' = IF f = 0 THEN <<>> ELSE <<e>>
               /\ failed_at' = f
               /\ status' = IF run.exc = <<>> THEN "constructed" ELSE "raised"
    /\ constructed_at' = now
    /\ last_op' = Op("init", timespan_arg, "-")
    /\ UNCHANGED <<namespace, providers, timespan_arg, now, mods, static_call>>

\* pivot.timespan = ts
SetTimespan ==
    /\ status = "constructed"
    /\ \E ts \in SampleSpans :
         /\ _query_time' = <<timespan_setter(ts)>>
         /\ last_op' = Op("timespan", <<ts>>, "-")
    /\ UNCHANGED <<namespace, providers, timespan_arg, now, status, _providers, calls,
                   exc, helper_exc, failed_at, constructed_at, mods, static_call>>

\* pivot.edit_query_time(units, timespan)
EditQueryTime ==
    /\ status = "constructed"
    /\ \E units \in Units, ts_opt \in {<<>>} \cup {<<ts>> : ts \in SampleSpans} :
         /\ _query_time' = <<edit_query_time(_query_time[1], units, ts_opt, now)>>
         /\ last_op' = Op("edit_query_time", ts_opt, units)
    /\ UNCHANGED <<namespace, providers, timespan_arg, now, status, _providers, calls,
                   exc, helper_exc, failed_at, constructed_at, mods, static_call>>

\* Pivot.providers: the property returns self._providers itself, not a copy
providers_property(reg) == reg

ViewKeys == {"TILookup", "B"}

\* pivot.providers[k] = v  or  del pivot.providers[k] : a write to the returned
\* mapping is a write to the registry, the two being one object
WriteThroughProviders ==
    /\ status = "constructed"
    /\ mods < MaxMods
    /\ \E k \in ViewKeys :
         \/ _providers' = DictSet(providers_property(_providers), k, OtherObj)
         \/ /\ DictHas(_providers, k)
            /\ _providers' = DictDel(providers_property(_providers), k)
    /\ mods' = mods + 1
    /\ UNCHANGED <<namespace, providers, timespan_arg, now, status, _query_time, calls,
                   exc, helper_exc, failed_at, constructed_at, last_op, static_call>>

\* Pivot.register_pivot_providers (static): one call to register_pivots
RegisterPivotProviders ==
    /\ \E f \in 0..1, e \in Errors :
         LET run == RunHelpers(<<RegisterCall("custom")>>, f, e)
         IN /\ f = 0 => e = "ValueError"
            /\ static_call' = [calls |-> run.calls, exc |-> run.exc,
                               helper_exc |-> IF f = 0 THEN <<>> ELSE <<e>>]
    /\ UNCHANGED <<namespace, providers, timespan_arg, now, status, _providers,
                   _query_time, calls, exc, helper_exc, failed_at, constructed_at,
                   last_op, mods>>

\* the clock advances
Tick ==
    /\ now < MaxNow
    /\ now' = now + 1
    /\ UNCHANGED <<namespace, providers, timespan_arg, status, _providers, _query_time,
                   calls, exc, helper_exc, failed_at, constructed_at, last_op, mods,
                   static_call>>

Next == Construct

Spec == Init /\ [][Next]_vars

NextLife ==
    \/ Construct
    \/ SetTimespan
    \/ EditQueryTime
    \/ WriteThroughProviders
    \/ RegisterPivotProviders
    \/ Tick

SpecLife == InitLife /\ [][NextLife]_vars

-----------------------------------------------------------------------------
(* Vocabulary of the properties *)

Pivot_query_time == _query_time[1]

Explicit == providers.items

Range(seq) == {seq[i] : i \in 1..Len(seq)}

\* the providers of a source that qualify for category key K: the TILookup
\* instances for "TILookup", the query providers of environment K otherwise
Qualifying(seq, K) ==
    IF K = "TILookup" THEN OfType(seq, "TILookup")
    ELSE SelectSeq(seq, LAMBDA p : isinstance(p, "QueryProvider") /\ p.environment = K)

\* the category key an object is filed under
KeyOf(obj) == IF isinstance(obj, "QueryProvider") THEN obj.environment ELSE "TILookup"

IsProvider(obj) == isinstance(obj, "QueryProvider") \/ isinstance(obj, "TILookup")

\* the provider objects of a source filed under key K
SharingKey(seq, K) == SelectSeq(seq, LAMBDA p : IsProvider(p) /\ KeyOf(p) = K)

Last(seq) == seq[Len(seq)]

CategoryKeys == {"A", "B", "TILookup"}

Constructed == status = "constructed"

\* discovery has run (the constructor returned or a helper raised after it)
Discovered == status # "new"

-----------------------------------------------------------------------------
(* C1 *)

\* C1: for every key K for which the explicit providers hold a qualifying
\* provider, get_provider(K) is one of the explicit providers; a namespace
\* provider whose key has no explicit counterpart stays registered.
C1_ExplicitOverridesNamespace ==
    Discovered =>
        \A K \in CategoryKeys :
            /\ Qualifying(Explicit, K) # <<>> =>
                   get_provider(_providers, K) \in Range(Qualifying(Explicit, K))
            /\ (Qualifying(Explicit, K) = <<>> /\ Qualifying(namespace, K) # <<>>) =>
                   get_provider(_providers, K) \in Range(Qualifying(namespace, K))

-----------------------------------------------------------------------------
(* C2 *)

\* C2 as stated: when two or more provider objects of the namespace share a
\* category key and no explicit provider has that key, the registry entry of
\* the key is the last of them in the namespace's order.
C2_NamespaceLastWins_Stated ==
    Discovered =>
        \A K \in CategoryKeys :
            (Cardinality(Range(SharingKey(namespace, K))) >= 2
                    /\ SharingKey(Explicit, K) = <<>>) =>
                get_provider(_providers, K) = Last(SharingKey(namespace, K))

\* C2 amended: the same, with the providers that compete for a key being the
\* query providers of that environment for an environment other than
\* "TILookup", and the TILookup instances for the key "TILookup".
C2_NamespaceLastWins ==
    Discovered =>
        \A K \in CategoryKeys :
            (Cardinality(Range(Qualifying(namespace, K))) >= 2
                    /\ SharingKey(Explicit, K) = <<>>) =>
                get_provider(_providers, K) = Last(Qualifying(namespace, K))

\* two different providers of one key in the namespace, explicit providers
\* that hold none of that key, and the later of the two registered
C2_Witness ==
    /\ Constructed
    /\ \E K \in CategoryKeys :
          /\ Len(Qualifying(namespace, K)) >= 2
          /\ Qualifying(namespace, K)[1] # Last(Qualifying(namespace, K))
          /\ SharingKey(Explicit, K) = <<>>
          /\ IterTruthy(providers)
          /\ get_provider(_providers, K) = Last(Qualifying(namespace, K))

-----------------------------------------------------------------------------
(* C3 *)

FoundTILookups == Range(OfType(namespace, "TILookup")) \cup Range(OfType(Explicit, "TILookup"))

\* C3: the registry always has a TILookup instance under "TILookup": a
\* discovered one when either source holds one, and a new default instance
\* exactly when neither source holds one.
C3_TILookupAlwaysPresent ==
    Discovered =>
        /\ DictHas(_providers, "TILookup")
        /\ isinstance(get_provider(_providers, "TILookup"), "TILookup")
        /\ FoundTILookups # {} => get_provider(_providers, "TILookup") \in FoundTILookups
        /\ FoundTILookups = {} <=> get_provider(_providers, "TILookup") = NewTILookup

-----------------------------------------------------------------------------
(* C9 *)

\* C9: when the explicit providers hold two or more providers of one category
\* key (query providers of one environment, or TILookup instances), the
\* registry entry of that key is the last of them in the explicit list.
C9_ExplicitLastWins ==
    Discovered =>
        \A K \in CategoryKeys :
            (providers.kind = "list" /\ Cardinality(Range(Qualifying(Explicit, K))) >= 2) =>
                get_provider(_providers, K) = Last(Qualifying(Explicit, K))

-----------------------------------------------------------------------------
(* C7 *)

\* the query providers of both sources, the namespace's first
DiscoveredQPs == OfType(namespace, "QueryProvider") \o OfType(Explicit, "QueryProvider")

DiscoveredEnvs == {p.environment : p \in Range(DiscoveredQPs)}

\* the provider that wins environment env: the last explicit one, else the
\* last one of the namespace
Winner(env) == Last(SelectSeq(DiscoveredQPs, LAMBDA p : p.environment = env))

CallsOf(fn) == SelectSeq(calls, LAMBDA c : c.fn = fn)

DataCallsFor(env) ==
    SelectSeq(CallsOf("add_data_queries_to_entities"), LAMBDA c : c.prov.environment = env)

\* the helpers are called in the order data queries, TI lookup, declarative
\* registration, the last two exactly once with their fixed container names
HelperOrder ==
    LET n == Len(CallsOf("add_data_queries_to_entities"))
    IN /\ Len(calls) = n + 2
       /\ \A i \in 1..n : calls[i].fn = "add_data_queries_to_entities"
       /\ calls[n + 1] = IocCall(get_provider(_providers, "TILookup"))
       /\ calls[n + 2] = RegisterCall("other")

\* one data-query call for each environment of envs, with its winning provider,
\* and no other data-query call
OneDataCallPerEnv(envs) ==
    /\ \A env \in envs :
          /\ Len(DataCallsFor(env)) = 1
          /\ DataCallsFor(env)[1].prov = Winner(env)
    /\ Len(CallsOf("add_data_queries_to_entities")) = Cardinality(envs)

-----------------------------------------------------------------------------
(* C8 *)

\* C8: when a registration helper raises during construction or during
\* register_pivot_providers, the caller gets that same error, the calls made
\* are the planned ones up to and including the failing one (none repeated,
\* none after it), and a construction in which a helper raised never returns.
C8_FailurePropagates ==
    /\ status = "raised" =>
          /\ helper_exc # <<>>
          /\ exc = helper_exc
          /\ failed_at = Len(calls)
          /\ calls = SubSeq(PlannedCalls(_providers, Pivot_query_time), 1, failed_at)
    /\ Constructed => (helper_exc = <<>> /\ exc = <<>>)
    /\ static_call.helper_exc # <<>> =>
          /\ static_call.exc = static_call.helper_exc
          /\ static_call.calls = <<RegisterCall("custom")>>

\* the first of three or more helper calls raised during construction, and
\* register_pivots raised during register_pivot_providers
C8_Witness ==
    /\ status = "raised"
    /\ failed_at = 1
    /\ Len(PlannedCalls(_providers, Pivot_query_time)) >= 3
    /\ exc = <<"KeyError">>
    /\ static_call.exc = <<"ValueError">>

-----------------------------------------------------------------------------
(* C4 *)

\* C4: at any time after construction, calling the accessor that was handed to
\* add_data_queries_to_entities returns the span the environment holds now; and
\* no operation after construction calls a registration helper of __init__ again.
C4_AccessorIsLazy ==
    /\ [](Constructed =>
            \A i \in 1..Len(calls) :
                calls[i].fn = "add_data_queries_to_entities" =>
                    CallAccessor(calls[i].get_timespan, Pivot_query_time)
                        = timespan(Pivot_query_time))
    /\ [][Constructed => calls' = calls]_vars

\* an accessor was registered, and the span was changed since to one that
\* differs from the span of construction time
C4_Witness ==
    /\ Constructed
    /\ \E i \in 1..Len(calls) : calls[i].fn = "add_data_queries_to_entities"
    /\ last_op.op \in {"timespan", "edit_query_time"}
    /\ timespan(Pivot_query_time) # timespan(InitQueryTime(timespan_arg, constructed_at))

-----------------------------------------------------------------------------
(* C5 *)

\* C5: constructing without a timespan starts in "default"; an operation given
\* a timespan leaves the environment "explicit" holding that span; and no
\* operation takes the environment from "explicit" back to a default window.
C5_TimespanStateMachine ==
    [][status' = "constructed" =>
         /\ (last_op'.op = "init" /\ last_op'.ts = <<>>) =>
                _query_time'[1].mode = "default"
         /\ last_op'.ts # <<>> =>
                /\ _query_time'[1].mode = "explicit"
                /\ timespan(_query_time'[1]) = last_op'.ts[1]
         /\ (Constructed /\ Pivot_query_time.mode = "explicit") =>
                _query_time'[1].mode = "explicit"]_vars

-----------------------------------------------------------------------------
(* C6 *)

\* C6: after construction without a timespan, and until the span is set or
\* edited, end is the time of construction and start is exactly one day
\* (1440 minutes) earlier, whatever the time of the read.
C6_DefaultWindow ==
    (Constructed /\ timespan_arg = <<>> /\ last_op.op = "init") =>
        /\ end(Pivot_query_time) = constructed_at
        /\ start(Pivot_query_time) = constructed_at - 1440
        /\ Pivot_query_time.units = "day"

\* constructed with no arguments at a time later than the model's first
\* instant, and read when the clock has moved on
C6_Witness ==
    /\ Constructed
    /\ namespace = <<>> /\ providers = NoProviders /\ timespan_arg = <<>>
    /\ last_op.op = "init"
    /\ constructed_at > 0
    /\ now > constructed_at

-----------------------------------------------------------------------------
(* C10 *)

\* C10: after construction no public operation adds, removes or replaces a
\* registry entry: get_provider(K) keeps its result for every key K, and stays
\* None for a key that was not registered.
C10_RegistryReadOnly ==
    [][Constructed =>
         /\ _providers' = _providers
         /\ \A K \in CategoryKeys :
               get_provider(_providers', K) = get_provider(_providers, K)]_vars

====
